---- MODULE Spec2Model ----
\* A model of class UndirectedGraph of graph.py: the mutable graph store
\* (add_edge, remove_edge, remove_node), the derived-graph operations
\* (copy, subgraph, contract_graph) and the structural queries
\* (maximal_matching, get_simplicial_vertices, is_simplicial).
\*
\* A Python assert that fails, and a KeyError raised by set.remove or by a
\* dict lookup, is modelled as a result with ok = FALSE; the graph is left as
\* the statements executed before the failure left it. Where the result of a
\* loop over a Python set depends on the iteration order, the order is an
\* input of the operator and the calls are made with every order.
\*
\* Spec runs every method, SpecStore the mutating methods alone, SpecQuery
\* the queries on every graph the mutating methods reach, and SpecRounds the
\* rounds of matching and contraction on every such graph.
EXTENDS Integers, Sequences, FiniteSets

\* ---------------------------------------------------------------- bounds
\* Largest n passed to UndirectedGraph(n).
MaxN == 4
\* Largest number of edges add_edge is driven to.
MaxEdges == 6

\* Vertex ids the calls are driven with: every id a graph can hold and one
\* id that no graph holds.
Ids == 1..(MaxN + 1)

\* ---------------------------------------------------------------- state
VARIABLES
    size,       \* self.size
    vertices,   \* self.vertices
    edges,      \* self.edges: vertex -> set of neighbours
    edge_list,  \* self.edge_list: set of pairs <<u, v>>
    op,         \* name of the last call
    args,       \* its arguments
    ret,        \* its outcome: [ok |-> ...] and what it returned
    pre,        \* the graph before the last call
    phase,      \* "build" | "run" | "done" | "failed" (contraction rounds)
    rounds,     \* contraction rounds performed
    start       \* vertex count when the contraction rounds started

vars == <<size, vertices, edges, edge_list, op, args, ret, pre, phase, rounds, start>>

\* The graph object as one value.
Self == [size |-> size, vertices |-> vertices, edges |-> edges, edge_list |-> edge_list]

\* ---------------------------------------------------------------- helpers
Min2(a, b) == IF a < b THEN a ELSE b
Max2(a, b) == IF a < b THEN b ELSE a
Range(s) == {s[i] : i \in DOMAIN s}

\* The orders in which a Python set with elements S can be iterated.
RECURSIVE IterationOrders(_)
IterationOrders(S) ==
    IF S = {} THEN {<<>>}
    ELSE UNION {{<<x>> \o p : p \in IterationOrders(S \ {x})} : x \in S}

\* Position of x in the sequence s (x occurs in s).
IndexOf(s, x) == CHOOSE k \in DOMAIN s : s[k] = x

\* ---------------------------------------------------------------- __init__
\* UndirectedGraph(size), for size >= 1 (the assert is checked by the callers).
UndirectedGraph(n) ==
    [size |-> n, vertices |-> 1..n, edges |-> [i \in 1..n |-> {}], edge_list |-> {}]

\* ---------------------------------------------------------------- add_edge
add_edge_keep_loop(G, vertex1, vertex2) ==
    IF ~(vertex1 \in G.vertices /\ vertex2 \in G.vertices)
    THEN [ok |-> FALSE, g |-> G]
    ELSE IF ~(vertex1 \in DOMAIN G.edges /\ vertex2 \in DOMAIN G.edges)
    THEN [ok |-> FALSE, g |-> G]
    ELSE [ok |-> TRUE,
          g  |-> [G EXCEPT
                    !.edges = [[@ EXCEPT ![vertex1] = @ \cup {vertex2}]
                                  EXCEPT ![vertex2] = @ \cup {vertex1}],
                    !.edge_list = @ \cup {<<Min2(vertex1, vertex2), Max2(vertex1, vertex2)>>}]]

add_edge_no_swap(G, vertex1, vertex2) ==
    IF ~(vertex1 \in G.vertices /\ vertex2 \in G.vertices)
    THEN [ok |-> FALSE, g |-> G]
    ELSE IF vertex1 = vertex2
    THEN [ok |-> TRUE, g |-> G]
    ELSE IF ~(vertex1 \in DOMAIN G.edges /\ vertex2 \in DOMAIN G.edges)
    THEN [ok |-> FALSE, g |-> G]
    ELSE [ok |-> TRUE,
          g  |-> [G EXCEPT
                    !.edges = [[@ EXCEPT ![vertex1] = @ \cup {vertex2}]
                                  EXCEPT ![vertex2] = @ \cup {vertex1}],
                    !.edge_list = @ \cup {<<vertex1, vertex2>>}]]

\* add_edge(vertex1, vertex2): the assert, the self-loop return, the two
\* adjacency insertions, the swap and the insertion into edge_list.
add_edge(G, vertex1, vertex2) ==
    IF ~(vertex1 \in G.vertices /\ vertex2 \in G.vertices)
    THEN [ok |-> FALSE, g |-> G]
    ELSE IF vertex1 = vertex2
    THEN [ok |-> TRUE, g |-> G]
    ELSE IF ~(vertex1 \in DOMAIN G.edges /\ vertex2 \in DOMAIN G.edges)
    THEN [ok |-> FALSE, g |-> G]
    ELSE [ok |-> TRUE,
          g  |-> [G EXCEPT
                    !.edges = [[@ EXCEPT ![vertex1] = @ \cup {vertex2}]
                                  EXCEPT ![vertex2] = @ \cup {vertex1}],
                    !.edge_list = @ \cup {<<Min2(vertex1, vertex2), Max2(vertex1, vertex2)>>}]]

\* A run of add_edge calls on G, one per pair, stopping at the first that fails.
RECURSIVE add_edges(_, _)
add_edges(G, pairs) ==
    IF pairs = {} THEN [ok |-> TRUE, g |-> G]
    ELSE LET p == CHOOSE x \in pairs : TRUE
             r == add_edge(G, p[1], p[2])
         IN  IF r.ok THEN add_edges(r.g, pairs \ {p}) ELSE r

\* ---------------------------------------------------------------- remove_edge
\* remove_edge(u, v): the three asserts, then the three removals.
remove_edge(G, u, v) ==
    IF ~(u \in G.vertices /\ v \in G.vertices)
    THEN [ok |-> FALSE, g |-> G]
    ELSE IF ~(u \in DOMAIN G.edges /\ v \in DOMAIN G.edges)
    THEN [ok |-> FALSE, g |-> G]
    ELSE IF ~(u \in G.edges[v] /\ v \in G.edges[u])
    THEN [ok |-> FALSE, g |-> G]
    ELSE LET a == Min2(u, v)
             b == Max2(u, v)
         IN  IF <<a, b>> \notin G.edge_list
             THEN [ok |-> FALSE, g |-> G]
             ELSE [ok |-> TRUE,
                   g  |-> [G EXCEPT
                             !.edges = [[@ EXCEPT ![a] = @ \ {b}] EXCEPT ![b] = @ \ {a}],
                             !.edge_list = @ \ {<<a, b>>}]]

\* ---------------------------------------------------------------- remove_node
\* The loop of remove_node over the neighbours still to visit: remove node
\* from the neighbour's adjacency set and the edge from edge_list; set.remove
\* raises KeyError when the element is absent.
RECURSIVE remove_node_loop(_, _, _)
remove_node_loop(G, node, todo) ==
    IF todo = {} THEN [ok |-> TRUE, g |-> G]
    ELSE LET neighbor == CHOOSE x \in todo : TRUE
             u == Min2(node, neighbor)
             v == Max2(node, neighbor)
         IN  IF neighbor \notin DOMAIN G.edges \/ node \notin G.edges[neighbor]
             THEN [ok |-> FALSE, g |-> G]
             ELSE LET G1 == [G EXCEPT !.edges = [@ EXCEPT ![neighbor] = @ \ {node}]]
                  IN  IF <<u, v>> \notin G1.edge_list
                      THEN [ok |-> FALSE, g |-> G1]
                      ELSE remove_node_loop([G1 EXCEPT !.edge_list = @ \ {<<u, v>>}],
                                            node, todo \ {neighbor})

remove_node_keep_size(G, node) ==
    IF node \notin G.vertices \/ node \notin DOMAIN G.edges
    THEN [ok |-> FALSE, g |-> G]
    ELSE LET r == remove_node_loop(G, node, G.edges[node])
         IN  IF ~r.ok THEN r
             ELSE [ok |-> TRUE,
                   g  |-> [size      |-> r.g.size,
                           vertices  |-> r.g.vertices \ {node},
                           edges     |-> [x \in DOMAIN r.g.edges \ {node} |-> r.g.edges[x]],
                           edge_list |-> r.g.edge_list]]

\* remove_node(node): the assert, the loop, del self.edges[node],
\* self.vertices.remove(node), self.size -= 1.
remove_node(G, node) ==
    IF node \notin G.vertices \/ node \notin DOMAIN G.edges
    THEN [ok |-> FALSE, g |-> G]
    ELSE LET r == remove_node_loop(G, node, G.edges[node])
         IN  IF ~r.ok THEN r
             ELSE [ok |-> TRUE,
                   g  |-> [size      |-> r.g.size - 1,
                           vertices  |-> r.g.vertices \ {node},
                           edges     |-> [x \in DOMAIN r.g.edges \ {node} |-> r.g.edges[x]],
                           edge_list |-> r.g.edge_list]]

\* ---------------------------------------------------------------- maximal_matching
\* The loop of maximal_matching over the rest of the scan of edge_list.
RECURSIVE matching_scan_inverted(_, _, _)
matching_scan_inverted(order, seen, matching) ==
    IF order = <<>> THEN matching
    ELSE LET u == Head(order)[1]
             v == Head(order)[2]
         IN  IF u \in seen /\ v \in seen
             THEN matching_scan_inverted(Tail(order), seen \cup {u, v}, matching \cup {<<u, v>>})
             ELSE matching_scan_inverted(Tail(order), seen, matching)

RECURSIVE matching_scan_one_end(_, _, _)
matching_scan_one_end(order, seen, matching) ==
    IF order = <<>> THEN matching
    ELSE LET u == Head(order)[1]
             v == Head(order)[2]
         IN  IF u \notin seen
             THEN matching_scan_one_end(Tail(order), seen \cup {u, v}, matching \cup {<<u, v>>})
             ELSE matching_scan_one_end(Tail(order), seen, matching)

RECURSIVE matching_scan(_, _, _)
matching_scan(order, seen, matching) ==
    IF order = <<>> THEN matching
    ELSE LET u == Head(order)[1]
             v == Head(order)[2]
         IN  IF u \notin seen /\ v \notin seen
             THEN matching_scan(Tail(order), seen \cup {u, v}, matching \cup {<<u, v>>})
             ELSE matching_scan(Tail(order), seen, matching)

\* maximal_matching(), with edge_list iterated in the given order.
maximal_matching(G, order) == matching_scan(order, {}, {})

\* ---------------------------------------------------------------- contract_graph
contract_graph_same_size(G, matching, vorder) ==
    LET mapping == [u \in {m[1] : m \in matching} |->
                       (CHOOSE m \in matching : m[1] = u)[2]]
        unmapped == SelectSeq(vorder, LAMBDA i : i \notin DOMAIN mapping)
        new_edges == [i \in Range(unmapped) |-> IndexOf(unmapped, i)]
        Target(node) == IF node \in DOMAIN mapping THEN mapping[node] ELSE node
        pairs == {p \in UNION {{<<node, neigh>> : neigh \in G.edges[node]} :
                                  node \in DOMAIN G.edges} : p \notin matching}
    IN  IF G.size < 1
        THEN [ok |-> FALSE]
        ELSE IF \E node \in DOMAIN G.edges : Target(node) \notin DOMAIN new_edges
        THEN [ok |-> FALSE]
        ELSE IF \E p \in pairs : Target(p[2]) \notin DOMAIN new_edges
        THEN [ok |-> FALSE]
        ELSE LET r == add_edges(UndirectedGraph(G.size),
                                {<<new_edges[Target(p[1])], new_edges[Target(p[2])]>> : p \in pairs})
             IN  IF r.ok THEN r ELSE [ok |-> FALSE]

\* contract_graph(matching), with self.vertices iterated in the order vorder:
\* mapping, new_size and the new graph (its constructor asserts new_size >= 1),
\* the numbering new_edges of the vertices that are not keys of mapping, and
\* one add_edge per (node, neigh) that is not a pair of the matching. A lookup
\* of new_edges that misses raises KeyError.
contract_graph(G, matching, vorder) ==
    LET mapping == [u \in {m[1] : m \in matching} |->
                       (CHOOSE m \in matching : m[1] = u)[2]]
        new_size == G.size - Cardinality(matching)
        unmapped == SelectSeq(vorder, LAMBDA i : i \notin DOMAIN mapping)
        new_edges == [i \in Range(unmapped) |-> IndexOf(unmapped, i)]
        Target(node) == IF node \in DOMAIN mapping THEN mapping[node] ELSE node
        pairs == {p \in UNION {{<<node, neigh>> : neigh \in G.edges[node]} :
                                  node \in DOMAIN G.edges} : p \notin matching}
    IN  IF new_size < 1
        THEN [ok |-> FALSE]
        ELSE IF \E node \in DOMAIN G.edges : Target(node) \notin DOMAIN new_edges
        THEN [ok |-> FALSE]
        ELSE IF \E p \in pairs : Target(p[2]) \notin DOMAIN new_edges
        THEN [ok |-> FALSE]
        ELSE LET r == add_edges(UndirectedGraph(new_size),
                                {<<new_edges[Target(p[1])], new_edges[Target(p[2])]>> : p \in pairs})
             IN  IF r.ok THEN r ELSE [ok |-> FALSE]

\* ---------------------------------------------------------------- simplicial vertices
get_simplicial_vertices_no_guard(G, vorder) ==
    SelectSeq(vorder, LAMBDA u :
        \A v \in G.edges[u] : \A w \in G.edges[u] : v \in G.edges[w])

\* get_simplicial_vertices(), with self.vertices iterated in the order vorder.
get_simplicial_vertices(G, vorder) ==
    SelectSeq(vorder, LAMBDA u :
        \A v \in G.edges[u] : \A w \in G.edges[u] : (v # w) => v \in G.edges[w])

\* is_simplicial()
is_simplicial(G, vorder) == Len(get_simplicial_vertices(G, vorder)) = G.size

\* ---------------------------------------------------------------- subgraph
\* subgraph(nodes), with nodes iterated in the order norder: the new graph
\* (its constructor asserts num_v >= 1), the numbering, and one add_edge per
\* (node, neighbor) inside nodes. self.edges[node] raises KeyError for a node
\* that is no vertex. Only sub_g is returned.
subgraph(G, nodes, norder) ==
    LET num_v == Cardinality(nodes)
        mapping == [node \in nodes |-> IndexOf(norder, node)]
    IN  IF num_v < 1
        THEN [ok |-> FALSE]
        ELSE IF \E node \in nodes : node \notin DOMAIN G.edges
        THEN [ok |-> FALSE]
        ELSE LET pairs == UNION {{<<node, neighbor>> : neighbor \in G.edges[node] \cap nodes} :
                                    node \in nodes}
                 r == add_edges(UndirectedGraph(num_v),
                                {<<mapping[p[1]], mapping[p[2]]>> : p \in pairs})
             IN  IF r.ok THEN r ELSE [ok |-> FALSE]

\* ---------------------------------------------------------------- copy
\* copy(): a new graph of self.size vertices (the constructor asserts
\* size >= 1) and one add_edge per element of edge_list.
copy(G) ==
    IF G.size < 1
    THEN [ok |-> FALSE]
    ELSE LET r == add_edges(UndirectedGraph(G.size), G.edge_list)
         IN  IF r.ok THEN r ELSE [ok |-> FALSE]

\* ---------------------------------------------------------------- the calls
\* The graph becomes G.
Becomes(G) ==
    /\ size' = G.size
    /\ vertices' = G.vertices
    /\ edges' = G.edges
    /\ edge_list' = G.edge_list

Graph == <<size, vertices, edges, edge_list>>
Rounds == <<phase, rounds, start>>

\* The matchings of the graph: sets of pairwise vertex-disjoint pairs, each
\* pair an edge of the graph, written in either orientation.
Disjoint(M) == \A m1 \in M : \A m2 \in M : (m1 # m2) => {m1[1], m1[2]} \cap {m2[1], m2[2]} = {}
Oriented(M, flip) == {IF m \in flip THEN <<m[2], m[1]>> ELSE m : m \in M}
Matchings(G) == UNION {{Oriented(M, flip) : flip \in SUBSET M} :
                          M \in {X \in SUBSET G.edge_list : Disjoint(X)}}

\* The state after UndirectedGraph(n); no call is in progress.
Init ==
    /\ \E n \in 1..MaxN : /\ size = n
                          /\ vertices = 1..n
                          /\ edges = [i \in 1..n |-> {}]
                          /\ edge_list = {}
                          /\ pre = UndirectedGraph(n)
    /\ op = "idle"
    /\ args = <<>>
    /\ ret = [ok |-> TRUE]
    /\ phase = "build"
    /\ rounds = 0
    /\ start = 0

\* A call is made on the graph at rest.
Idle == phase = "build" /\ op = "idle"

AddEdge ==
    /\ Idle
    /\ \E vertex1 \in Ids, vertex2 \in Ids :
         LET r == add_edge(Self, vertex1, vertex2)
         IN  /\ Cardinality(r.g.edge_list) <= MaxEdges
             /\ Becomes(r.g)
             /\ op' = "add_edge"
             /\ args' = <<vertex1, vertex2>>
             /\ ret' = [ok |-> r.ok]
    /\ pre' = Self
    /\ UNCHANGED Rounds

RemoveEdge ==
    /\ Idle
    /\ \E u \in Ids, v \in Ids :
         LET r == remove_edge(Self, u, v)
         IN  /\ Becomes(r.g)
             /\ op' = "remove_edge"
             /\ args' = <<u, v>>
             /\ ret' = [ok |-> r.ok]
    /\ pre' = Self
    /\ UNCHANGED Rounds

RemoveNode ==
    /\ Idle
    /\ \E node \in Ids :
         LET r == remove_node(Self, node)
         IN  /\ Becomes(r.g)
             /\ op' = "remove_node"
             /\ args' = <<node>>
             /\ ret' = [ok |-> r.ok]
    /\ pre' = Self
    /\ UNCHANGED Rounds

MaximalMatching ==
    /\ Idle
    /\ \E order \in IterationOrders(edge_list) :
         /\ op' = "maximal_matching"
         /\ args' = <<>>
         /\ ret' = [ok |-> TRUE, matching |-> maximal_matching(Self, order)]
    /\ pre' = Self
    /\ UNCHANGED <<Graph, Rounds>>

ContractGraph ==
    /\ Idle
    /\ \E matching \in Matchings(Self), vorder \in IterationOrders(vertices) :
         /\ op' = "contract_graph"
         /\ args' = <<matching>>
         /\ ret' = contract_graph(Self, matching, vorder)
    /\ pre' = Self
    /\ UNCHANGED <<Graph, Rounds>>

GetSimplicialVertices ==
    /\ Idle
    /\ \E vorder \in IterationOrders(vertices) :
         /\ op' = "get_simplicial_vertices"
         /\ args' = <<>>
         /\ ret' = [ok |-> TRUE, list |-> get_simplicial_vertices(Self, vorder)]
    /\ pre' = Self
    /\ UNCHANGED <<Graph, Rounds>>

IsSimplicial ==
    /\ Idle
    /\ \E vorder \in IterationOrders(vertices) :
         /\ op' = "is_simplicial"
         /\ args' = <<>>
         /\ ret' = [ok |-> TRUE, value |-> is_simplicial(Self, vorder)]
    /\ pre' = Self
    /\ UNCHANGED <<Graph, Rounds>>

Subgraph ==
    /\ Idle
    /\ \E nodes \in SUBSET vertices :
         \E norder \in IterationOrders(nodes) :
            /\ op' = "subgraph"
            /\ args' = <<nodes>>
            /\ ret' = subgraph(Self, nodes, norder)
    /\ pre' = Self
    /\ UNCHANGED <<Graph, Rounds>>

Copy ==
    /\ Idle
    /\ op' = "copy"
    /\ args' = <<>>
    /\ ret' = copy(Self)
    /\ pre' = Self
    /\ UNCHANGED <<Graph, Rounds>>

\* The call has returned and its outcome is dropped: the graph is at rest.
Return ==
    /\ phase = "build"
    /\ op # "idle"
    /\ op' = "idle"
    /\ args' = <<>>
    /\ ret' = [ok |-> TRUE]
    /\ pre' = Self
    /\ UNCHANGED <<Graph, Rounds>>

\* A mutating call together with its return, its outcome dropped: the graph
\* moves from one state at rest to the next.
Build ==
    /\ Idle
    /\ \/ \E vertex1 \in Ids, vertex2 \in Ids :
            LET r == add_edge(Self, vertex1, vertex2)
            IN  /\ Cardinality(r.g.edge_list) <= MaxEdges
                /\ Becomes(r.g)
                /\ pre' = r.g
       \/ \E u \in Ids, v \in Ids :
            LET r == remove_edge(Self, u, v)
            IN  /\ Becomes(r.g)
                /\ pre' = r.g
       \/ \E node \in Ids :
            LET r == remove_node(Self, node)
            IN  /\ Becomes(r.g)
                /\ pre' = r.g
    /\ UNCHANGED <<op, args, ret, Rounds>>

\* Every call, each observed with its arguments and outcome.
Next ==
    \/ AddEdge
    \/ RemoveEdge
    \/ RemoveNode
    \/ MaximalMatching
    \/ ContractGraph
    \/ GetSimplicialVertices
    \/ IsSimplicial
    \/ Subgraph
    \/ Copy
    \/ Return

Spec == Init /\ [][Next]_vars

\* The graph store alone: the three mutating calls, each observed.
NextStore ==
    \/ AddEdge
    \/ RemoveEdge
    \/ RemoveNode
    \/ Return

SpecStore == Init /\ [][NextStore]_vars

\* The structural queries, observed on every graph the mutating calls reach.
NextQuery ==
    \/ Build
    \/ MaximalMatching
    \/ GetSimplicialVertices
    \/ IsSimplicial
    \/ Return

SpecQuery == Init /\ [][NextQuery]_vars

\* ---------------------------------------------------------------- contraction rounds
\* The round of the contraction engine: M := maximal_matching(); stop when M
\* is empty, otherwise replace the graph by contract_graph(M).
\* Iteration orders of the set S, one for each order of its elements outside
\* K: orders that differ only in where the elements of K stand give
\* contract_graph the same numbering when K is the key set of mapping.
OrdersUpTo(S, K) ==
    LET k == CHOOSE o \in IterationOrders(S \cap K) : TRUE
    IN  {k \o p : p \in IterationOrders(S \ K)}

Round ==
    /\ phase \in {"build", "run"}
    /\ op \in {"idle", "round"}
    /\ \E M \in {maximal_matching(Self, order) : order \in IterationOrders(edge_list)} :
         /\ args' = <<M>>
         /\ \/ /\ M = {}
               /\ phase' = "done"
               /\ op' = "stop"
               /\ ret' = [ok |-> TRUE]
               /\ UNCHANGED <<Graph, rounds>>
            \/ /\ M # {}
               /\ \E vorder \in OrdersUpTo(vertices, {m[1] : m \in M}) :
                    LET r == contract_graph(Self, M, vorder)
                    IN  \/ /\ r.ok
                           /\ Becomes(r.g)
                           /\ phase' = "run"
                           /\ op' = "round"
                           /\ ret' = [ok |-> TRUE]
                           /\ rounds' = rounds + 1
                        \/ /\ ~r.ok
                           /\ phase' = "failed"
                           /\ op' = "round"
                           /\ ret' = [ok |-> FALSE]
                           /\ UNCHANGED <<Graph, rounds>>
    /\ pre' = Self
    /\ start' = IF phase = "build" THEN size ELSE start

\* The graph is built, then the rounds run until the matching is empty.
NextRounds ==
    \/ Build
    \/ Round

\* The effect of a Round step on phase and rounds. A step of NextRounds
\* changes <<phase, rounds>> iff it is a Round step, and a Round step is
\* possible in exactly the phases "build" and "run", so fairness for
\* RoundTaken on <<phase, rounds>> is fairness for Round.
RoundTaken ==
    /\ phase \in {"build", "run"}
    /\ phase' \in {"run", "done", "failed"}
    /\ rounds' \in {rounds, rounds + 1}

\* The loop of rounds keeps running: a round that can be taken is taken.
SpecRounds == Init /\ [][NextRounds]_vars /\ WF_<<phase, rounds>>(RoundTaken)

\* ================================================================ properties
\* The graph as edge_list describes it.
Adjacent(u, v) == <<Min2(u, v), Max2(u, v)>> \in edge_list
Nbrs(u) == {v \in vertices : Adjacent(u, v)}
Adj(u) == IF u \in DOMAIN edges THEN edges[u] ELSE {}

\* ---------------------------------------------------------------- C1
\* C1: in every state reached from UndirectedGraph(n) by add_edge,
\* remove_edge and remove_node calls, failed ones included: v is in edges[u]
\* iff u is in edges[v] iff (min(u,v), max(u,v)) is in edge_list; no vertex is
\* its own neighbour; the keys of edges are the vertices; size = |vertices|.
C1_GraphInvariant ==
    /\ \A u \in Ids : \A v \in Ids :
         /\ (v \in Adj(u)) <=> (u \in Adj(v))
         /\ (v \in Adj(u)) <=> (<<Min2(u, v), Max2(u, v)>> \in edge_list)
    /\ \A u \in DOMAIN edges : u \notin edges[u]
    /\ DOMAIN edges = vertices
    /\ size = Cardinality(vertices)

\* A vertex with neighbours has been removed and edges remain.
C1_Witness ==
    /\ op = "remove_node"
    /\ ret.ok
    /\ pre.edges[args[1]] # {}
    /\ edge_list # {}

\* ---------------------------------------------------------------- C9
\* C9 as stated: add_edge(u, v) returns without failing and changes nothing
\* whenever u = v; for u # v it fails and changes nothing when an endpoint is
\* no vertex; otherwise it records the edge in edges[u], edges[v] and
\* edge_list, and a second add_edge(u, v) or add_edge(v, u) changes nothing.
C9_AsStated ==
    (op = "add_edge") =>
        LET u == args[1]
            v == args[2]
            valid == u \in pre.vertices /\ v \in pre.vertices
        IN  /\ (u = v) => (ret.ok /\ Self = pre)
            /\ (u # v /\ ~valid) => (~ret.ok /\ Self = pre)
            /\ (u # v /\ valid) =>
                  /\ ret.ok
                  /\ v \in edges[u]
                  /\ u \in edges[v]
                  /\ <<Min2(u, v), Max2(u, v)>> \in edge_list
                  /\ add_edge(Self, u, v) = [ok |-> TRUE, g |-> Self]
                  /\ add_edge(Self, v, u) = [ok |-> TRUE, g |-> Self]

\* C9, amended: add_edge(u, v) fails and changes nothing when an endpoint is
\* no vertex, also when u = v; with both endpoints vertices it is a no-op for
\* u = v, and otherwise records the edge and is idempotent.
C9_AddEdge ==
    (op = "add_edge") =>
        LET u == args[1]
            v == args[2]
            valid == u \in pre.vertices /\ v \in pre.vertices
        IN  /\ ~valid => (~ret.ok /\ Self = pre)
            /\ (u = v /\ valid) => (ret.ok /\ Self = pre)
            /\ (u # v /\ valid) =>
                  /\ ret.ok
                  /\ v \in edges[u]
                  /\ u \in edges[v]
                  /\ <<Min2(u, v), Max2(u, v)>> \in edge_list
                  /\ add_edge(Self, u, v) = [ok |-> TRUE, g |-> Self]
                  /\ add_edge(Self, v, u) = [ok |-> TRUE, g |-> Self]

\* An edge has been added with the larger endpoint given first.
C9_Witness ==
    /\ op = "add_edge"
    /\ ret.ok
    /\ args[1] > args[2]
    /\ <<args[2], args[1]>> \in edge_list \ pre.edge_list

\* ---------------------------------------------------------------- C10
\* C10: remove_node(v) fails and changes nothing when v is no vertex;
\* otherwise the vertex set loses v and nothing else, size drops by one,
\* edge_list loses exactly the edges at v, and the adjacency set of every
\* remaining vertex loses v and nothing else.
C10_RemoveNode ==
    (op = "remove_node") =>
        LET v == args[1]
        IN  /\ (v \notin pre.vertices) => (~ret.ok /\ Self = pre)
            /\ (v \in pre.vertices) =>
                  /\ ret.ok
                  /\ vertices = pre.vertices \ {v}
                  /\ size = pre.size - 1
                  /\ edge_list = {e \in pre.edge_list : v \notin {e[1], e[2]}}
                  /\ DOMAIN edges = pre.vertices \ {v}
                  /\ \A x \in pre.vertices \ {v} : edges[x] = pre.edges[x] \ {v}

\* A vertex with two neighbours has been removed, and an edge remains.
C10_Witness ==
    /\ op = "remove_node"
    /\ ret.ok
    /\ Cardinality(pre.edges[args[1]]) >= 2
    /\ edge_list # {}

\* ---------------------------------------------------------------- C4
\* C4: whatever the order in which edge_list is scanned, maximal_matching()
\* returns pairwise vertex-disjoint pairs, each an element of edge_list, that
\* cover at least one endpoint of every edge (so the result is empty iff the
\* graph has no edges), and the call leaves the graph as it was.
C4_MaximalMatching ==
    (op = "maximal_matching") =>
        LET M == ret.matching
        IN  /\ Disjoint(M)
            /\ M \subseteq edge_list
            /\ \A e \in edge_list : \E m \in M : {e[1], e[2]} \cap {m[1], m[2]} # {}
            /\ (M = {}) <=> (edge_list = {})
            /\ Self = pre

\* Two pairs were matched and at least one edge was passed over.
C4_Witness ==
    /\ op = "maximal_matching"
    /\ Cardinality(ret.matching) = 2
    /\ Cardinality(edge_list) >= 3

\* ---------------------------------------------------------------- C5
\* C5: whatever the scan order, the matching maximal_matching() returns has
\* at least half the size of every matching of the graph.
C5_HalfOfMaximum ==
    (op = "maximal_matching") =>
        \A Mstar \in {X \in SUBSET edge_list : Disjoint(X)} :
            2 * Cardinality(ret.matching) >= Cardinality(Mstar)

\* The bound is met with equality: one pair returned, a matching of two exists.
C5_Witness ==
    /\ op = "maximal_matching"
    /\ Cardinality(ret.matching) = 1
    /\ \E Mstar \in {X \in SUBSET edge_list : Disjoint(X)} : Cardinality(Mstar) = 2

\* ---------------------------------------------------------------- C7
\* u is simplicial: every two distinct neighbours of u are adjacent.
SimplicialVertex(u) ==
    \A v \in Nbrs(u) : \A w \in Nbrs(u) : (v # w) => Adjacent(v, w)

\* The vertices joined to a vertex of S by a path.
RECURSIVE Reach(_)
Reach(S) ==
    LET T == S \cup {v \in vertices : \E u \in S : Adjacent(u, v)}
    IN  IF T = S THEN S ELSE Reach(T)

\* Every connected component is a clique.
DisjointUnionOfCliques ==
    \A u \in vertices : \A v \in Reach({u}) : (u # v) => Adjacent(u, v)

\* The graph is one cycle through at least four vertices.
LongCycle ==
    /\ Cardinality(vertices) >= 4
    /\ \A u \in vertices : Cardinality(Nbrs(u)) = 2 /\ Reach({u}) = vertices

\* C7: get_simplicial_vertices() returns exactly the vertices whose
\* neighbours are pairwise adjacent, each once, and none for a cycle of length
\* >= 4; is_simplicial() is true iff every vertex is simplicial, which is iff
\* the graph is a disjoint union of cliques.
C7_Simplicial ==
    /\ (op = "get_simplicial_vertices") =>
          /\ Range(ret.list) = {u \in vertices : SimplicialVertex(u)}
          /\ Len(ret.list) = Cardinality(Range(ret.list))
          /\ LongCycle => (ret.list = <<>>)
    /\ (op = "is_simplicial") =>
          /\ ret.value = (\A u \in vertices : SimplicialVertex(u))
          /\ ret.value = DisjointUnionOfCliques

\* Some vertex with two neighbours is returned and some vertex is not.
C7_Witness ==
    /\ op = "get_simplicial_vertices"
    /\ \E u \in Range(ret.list) : Cardinality(edges[u]) >= 2
    /\ Len(ret.list) < size

\* get_simplicial_vertices() has returned nothing for a cycle of length four.
C7_CycleWitness ==
    /\ op = "get_simplicial_vertices"
    /\ LongCycle
    /\ ret.list = <<>>

\* ---------------------------------------------------------------- C3
\* C3 as stated, in its final state: the rounds never fail, and they end with
\* an empty matching on an edgeless graph after at most |V| - 1 contractions,
\* |V| the vertex count at the start.
C3_AsStated ==
    /\ phase # "failed"
    /\ (phase = "done") =>
          /\ args[1] = {}
          /\ edge_list = {}
          /\ rounds <= start - 1

\* C3, amended: every round that contracts uses a matching M with |M| >= 1
\* and lowers the vertex count by exactly |M|; the rounds never fail and
\* eventually end, with an empty matching on an edgeless graph, after at most
\* max(|V| - 1, 0) contractions (none for the graph without vertices).
C3_Rounds ==
    /\ [][(op' = "round") =>
            /\ Cardinality(args'[1]) >= 1
            /\ size' = size - Cardinality(args'[1])
            /\ Cardinality(vertices') = Cardinality(vertices) - Cardinality(args'[1])
            /\ size' < size
            /\ rounds' = rounds + 1]_vars
    /\ [](phase # "failed")
    /\ []((phase = "done") =>
            /\ args[1] = {}
            /\ edge_list = {}
            /\ rounds <= Max2(start - 1, 0))
    /\ <>(phase = "done")

\* The rounds have ended after two contractions.
C3_Witness ==
    /\ phase = "done"
    /\ rounds >= 2
    /\ edge_list = {}

\* ---------------------------------------------------------------- C2
\* The graph H is the contraction of the graph before the call by the
\* matching M: H has the vertices 1..(|V| - |M|), and some map f from V onto
\* them sends x and y to the same vertex iff x = y or they are a pair of M,
\* and a, b are adjacent in H iff a # b and some edge joins a vertex sent to a
\* with a vertex sent to b.
Contracts(H, M) ==
    LET k == Cardinality(vertices) - Cardinality(M)
    IN  /\ H.vertices = 1..k
        /\ DOMAIN H.edges = 1..k
        /\ \E f \in [vertices -> 1..k] :
             /\ \A a \in 1..k : \E x \in vertices : f[x] = a
             /\ \A x \in vertices : \A y \in vertices :
                  (f[x] = f[y]) <=> (x = y \/ <<x, y>> \in M \/ <<y, x>> \in M)
             /\ \A a \in 1..k : \A b \in 1..k :
                  (b \in H.edges[a]) <=>
                      /\ a # b
                      /\ \E e \in edge_list : \/ f[e[1]] = a /\ f[e[2]] = b
                                              \/ f[e[1]] = b /\ f[e[2]] = a

\* C2: for every reachable graph and every matching M of it,
\* contract_graph(M) returns the contraction of the graph by M.
C2_Contract ==
    (op = "contract_graph") => (ret.ok /\ Contracts(ret.g, args[1]))

\* What does hold: on a graph with at least one vertex, contract_graph(M)
\* returns the contraction of the graph by M.
ContractOfNonEmpty ==
    (op = "contract_graph" /\ size >= 1) => (ret.ok /\ Contracts(ret.g, args[1]))

\* ---------------------------------------------------------------- C6
\* C6: copy() succeeds on every reachable graph and returns a graph with the
\* same vertex set, size, adjacency sets and edge_list.
C6_Copy ==
    (op = "copy") => (ret.ok /\ ret.g = Self /\ Self = pre)

\* What does hold: copy() returns an equal graph while the vertices are 1..size.
CopyOfDense ==
    (op = "copy" /\ size >= 1 /\ vertices = 1..size) => (ret.ok /\ ret.g = Self /\ Self = pre)

\* ---------------------------------------------------------------- C8
\* The graph H is the subgraph induced by S, renumbered onto 1..|S|.
Induces(H, S) ==
    LET k == Cardinality(S)
    IN  /\ H.vertices = 1..k
        /\ DOMAIN H.edges = 1..k
        /\ \E m \in [S -> 1..k] :
             /\ \A x \in S : \A y \in S : (m[x] = m[y]) => (x = y)
             /\ \A x \in S : \A y \in S : (m[y] \in H.edges[m[x]]) <=> Adjacent(x, y)
             /\ H.edge_list = {<<Min2(m[e[1]], m[e[2]]), Max2(m[e[1]], m[e[2]])>> :
                                  e \in {d \in edge_list : d[1] \in S /\ d[2] \in S}}

\* C8: for every subset S of the vertices, subgraph(S) returns the subgraph
\* induced by S renumbered onto 1..|S|, returns the id mapping it used, and
\* leaves the graph as it was.
C8_Subgraph ==
    (op = "subgraph") =>
        /\ ret.ok
        /\ Induces(ret.g, args[1])
        /\ "mapping" \in DOMAIN ret
        /\ Self = pre

\* What does hold: for a non-empty S the graph returned is the induced
\* subgraph, renumbered, and the graph is left as it was.
SubgraphOfNonEmpty ==
    (op = "subgraph" /\ args[1] # {}) =>
        (ret.ok /\ Induces(ret.g, args[1]) /\ Self = pre)

====
